---- MODULE Spec2Model ----
(***************************************************************************)
(* The version/diff store (reducers/versions) and the Compare page of the  *)
(* add-ons code manager, as a state machine.                               *)
(*                                                                         *)
(* JavaScript strings that the code parses or builds (route parameters,    *)
(* URLs, the diffsByPath key) are sequences of one-character strings, so   *)
(* that parseInt, String and template literals are computed.  Objects are  *)
(* functions; `undefined` and `null` are the two records below.            *)
(***************************************************************************)
EXTENDS Integers, Sequences, FiniteSets, TLC

VARIABLES
  versions,   \* the redux state `state.versions` (VersionsState)
  mounted,    \* whether a CompareBase instance is mounted
  params,     \* its props.match.params (route strings), meaningful when mounted
  inflight,   \* getDiff calls awaiting their response, in issue order
  pending,    \* getVersion calls awaiting their response, in issue order
  issued,     \* number of API requests issued so far
  effects,    \* what the last handler did: thunk calls, dispatches, requests, pushes, raises
  history     \* the last fetchDiff issued for each key and how it ended; the file the
              \* user selected last and the fetches of the selections still in flight

vars == <<versions, mounted, params, inflight, pending, issued, effects, history>>

----------------------------------------------------------------------------
(* Bounds of the model *)

\* API requests issued in one run
MaxRequests == 2

\* API requests awaiting their response at one time
MaxInFlight == 2

----------------------------------------------------------------------------
(* JavaScript values *)

undefined == [undefined |-> TRUE]

null == [null |-> TRUE]

\* the TypeError raised by destructuring or calling a member of undefined
TypeError == [error |-> "TypeError"]

\* {...obj, [k]: v}
Put(obj, k, v) == [x \in (DOMAIN obj) \cup {k} |-> IF x = k THEN v ELSE obj[x]]

\* obj[k], undefined when the key is absent
Get(obj, k) == IF k \in DOMAIN obj THEN obj[k] ELSE undefined

\* entries.find((e) => e.path === path): the first entry of that path, else undefined
findEntry(entries, path) ==
  IF \E i \in 1..Len(entries) : entries[i].path = path
  THEN entries[CHOOSE i \in 1..Len(entries) :
                 /\ entries[i].path = path
                 /\ \A j \in 1..(i - 1) : entries[j].path # path]
  ELSE undefined

Digits == <<"0", "1", "2", "3", "4", "5", "6", "7", "8", "9">>

DigitValue(c) == (CHOOSE i \in 1..10 : Digits[i] = c) - 1

RECURSIVE parseInt(_)
\* parseInt(s, 10) of a non-empty string of decimal digits
parseInt(s) ==
  IF Len(s) = 0 THEN 0
  ELSE 10 * parseInt(SubSeq(s, 1, Len(s) - 1)) + DigitValue(s[Len(s)])

RECURSIVE String(_)
\* String(n) of a non-negative integer
String(n) ==
  IF n < 10 THEN <<Digits[n + 1]>>
  ELSE String(n \div 10) \o <<Digits[(n % 10) + 1]>>

----------------------------------------------------------------------------
(* Payloads of the API (what getVersion and getDiff answer) *)

\* the head version id that fetchDiff puts in its request
RequestedHeadVersionId == 123

\* paths of the files of every version on the server, in entry order
EntryPaths == <<"manifest.json", "index.js", "style.css">>

Paths == {EntryPaths[i] : i \in 1..Len(EntryPaths)}

\* a path that is no entry of any version
MissingPath == "README.md"

\* the file the API selects when the request names no path
DefaultPath == EntryPaths[1]

ExternalVersionEntry(path) ==
  [depth |-> 0, filename |-> path, mime_category |-> "text",
   mimetype |-> <<"mime", path>>, modified |-> "2019-03-01", path |-> path,
   sha256 |-> <<"sha", path>>, size |-> 10]

ExternalVersionAddon(addonId) ==
  [icon_url |-> "icon.png", id |-> addonId, name |-> "addon", slug |-> "slug"]

\* one modified file: a hunk with a normal, a deleted and an inserted line
ExternalDiff(versionId, path) ==
  [hunks |-> << [changes |-> << [content |-> <<"same", versionId, path>>, new_line_number |-> 1,
                                 old_line_number |-> 2, type |-> "normal"],
                                [content |-> <<"old", versionId, path>>, new_line_number |-> -1,
                                 old_line_number |-> 3, type |-> "delete"],
                                [content |-> <<"new", versionId, path>>, new_line_number |-> 2,
                                 old_line_number |-> -1, type |-> "insert"] >>,
                  header |-> "@@ -2,2 +1,2 @@", new_lines |-> 2, new_start |-> 1,
                  old_lines |-> 2, old_start |-> 2] >>,
   mode |-> "M", new_ending_new_line |-> TRUE, old_ending_new_line |-> FALSE,
   old_path |-> path, path |-> path]

\* PartialExternalVersion & { file }: the version `versionId` with `selected` selected
ExternalVersion(addonId, versionId, selected, file) ==
  [addon |-> ExternalVersionAddon(addonId), id |-> versionId, reviewed |-> "2019-03-02",
   version |-> <<"v">> \o String(versionId),
   file |-> LET entries == [i \in 1..Len(EntryPaths) |-> ExternalVersionEntry(EntryPaths[i])]
            IN IF "diff" \in DOMAIN file
               THEN [diff |-> file.diff, created |-> "2019-03-03", entries |-> entries,
                     id |-> versionId, selected_file |-> selected, size |-> 10]
               ELSE [content |-> file.content, created |-> "2019-03-03", entries |-> entries,
                     id |-> versionId, selected_file |-> selected, size |-> 10]]

ExternalVersionWithContent(addonId, versionId, selected) ==
  ExternalVersion(addonId, versionId, selected, [content |-> <<"content", versionId, selected>>])

ExternalVersionWithDiff(addonId, versionId, selected) ==
  ExternalVersion(addonId, versionId, selected, [diff |-> <<ExternalDiff(versionId, selected)>>])

----------------------------------------------------------------------------
(* reducers/versions: normalisation *)

initialState ==
  [byAddonId |-> <<>>, diffsByPath |-> <<>>, versionInfo |-> <<>>, versionFiles |-> <<>>]

createInternalVersionFile(file) ==
  [content |-> file.content, created |-> file.created, id |-> file.id, size |-> file.size]

createInternalVersionEntry(entry) ==
  [depth |-> entry.depth, filename |-> entry.filename, mimeType |-> entry.mimetype,
   modified |-> entry.modified, path |-> entry.path, sha256 |-> entry.sha256,
   type |-> entry.mime_category]

createInternalVersionAddon(addon) ==
  [iconUrl |-> addon.icon_url, id |-> addon.id, name |-> addon.name, slug |-> addon.slug]

createInternalVersion(version) ==
  [addon |-> createInternalVersionAddon(version.addon),
   entries |-> [i \in 1..Len(version.file.entries) |->
                  createInternalVersionEntry(version.file.entries[i])],
   id |-> version.id,
   reviewed |-> version.reviewed,
   selectedPath |-> version.file.selected_file,
   version |-> version.version]

GIT_STATUS_TO_TYPE ==
  [A |-> "add", C |-> "copy", D |-> "delete", M |-> "modify", R |-> "rename"]

createInternalChange(change) ==
  [content |-> change.content,
   isDelete |-> change.type = "delete",
   isInsert |-> change.type = "insert",
   isNormal |-> change.type = "normal",
   lineNumber |-> IF change.type = "insert" THEN change.new_line_number
                  ELSE change.old_line_number,
   newLineNumber |-> change.new_line_number,
   oldLineNumber |-> change.old_line_number,
   type |-> change.type]

createInternalHunk(hunk) ==
  [changes |-> [i \in 1..Len(hunk.changes) |-> createInternalChange(hunk.changes[i])],
   content |-> hunk.header, isPlain |-> FALSE, newLines |-> hunk.new_lines,
   newStart |-> hunk.new_start, oldLines |-> hunk.old_lines, oldStart |-> hunk.old_start]

\* createInternalDiffs with the mode itself as the default type of an unlisted mode
createInternalDiffKeepingMode(baseVersionId, headVersionId, diff) ==
  [newRevision |-> String(headVersionId),
   oldRevision |-> String(baseVersionId),
   hunks |-> [i \in 1..Len(diff.hunks) |-> createInternalHunk(diff.hunks[i])],
   type |-> IF diff.mode \in DOMAIN GIT_STATUS_TO_TYPE THEN GIT_STATUS_TO_TYPE[diff.mode]
            ELSE diff.mode,
   newEndingNewLine |-> diff.new_ending_new_line,
   oldEndingNewLine |-> diff.old_ending_new_line,
   newMode |-> diff.mode, oldMode |-> diff.mode,
   newPath |-> diff.path, oldPath |-> diff.old_path]

createInternalDiff(baseVersionId, headVersionId, diff) ==
  [newRevision |-> String(headVersionId),
   oldRevision |-> String(baseVersionId),
   hunks |-> [i \in 1..Len(diff.hunks) |-> createInternalHunk(diff.hunks[i])],
   type |-> IF diff.mode \in DOMAIN GIT_STATUS_TO_TYPE THEN GIT_STATUS_TO_TYPE[diff.mode]
            ELSE GIT_STATUS_TO_TYPE.M,
   newEndingNewLine |-> diff.new_ending_new_line,
   oldEndingNewLine |-> diff.old_ending_new_line,
   newMode |-> diff.mode, oldMode |-> diff.mode,
   newPath |-> diff.path, oldPath |-> diff.old_path]

createInternalDiffs(baseVersionId, headVersionId, version) ==
  [i \in 1..Len(version.file.diff) |->
     createInternalDiff(baseVersionId, headVersionId, version.file.diff[i])]

----------------------------------------------------------------------------
(* reducers/versions: selectors *)

getVersionFiles(state, versionId) == Get(state.versionFiles, versionId)

getVersionInfo(state, versionId) == Get(state.versionInfo, versionId)

\* the file stored at (versionId, path) with the fields of its entry, undefined when
\* the version, its files, the entry or the file is missing; TypeError where
\* versionInfo[versionId].entries is undefined and .find is called on it
getVersionFile(state, versionId, path) ==
  LET version == getVersionInfo(state, versionId)
      filesForVersion == getVersionFiles(state, versionId)
  IN IF version # undefined /\ filesForVersion # undefined
     THEN IF "entries" \notin DOMAIN version THEN TypeError
          ELSE LET file == Get(filesForVersion, path)
                   entry == findEntry(version.entries, path)
               IN IF entry = undefined THEN undefined
                  ELSE IF file # undefined
                       THEN [content |-> file.content, created |-> file.created,
                             id |-> file.id, size |-> file.size,
                             filename |-> entry.filename, mimeType |-> entry.mimeType,
                             sha256 |-> entry.sha256, type |-> entry.type,
                             version |-> version.version]
                       ELSE undefined
     ELSE undefined

getDiffsKey(addonId, baseVersionId, headVersionId) ==
  String(addonId) \o <<"/">> \o String(baseVersionId) \o <<"/">> \o String(headVersionId)

getCompareInfoMap(state, addonId, baseVersionId, headVersionId) ==
  Get(state.diffsByPath, getDiffsKey(addonId, baseVersionId, headVersionId))

----------------------------------------------------------------------------
(* reducers/versions: action creators *)

loadVersionFile(path, version) ==
  [type |-> "LOAD_VERSION_FILE", payload |-> [path |-> path, version |-> version]]

loadVersionInfo(version) ==
  [type |-> "LOAD_VERSION_INFO", payload |-> [version |-> version]]

updateSelectedPath(selectedPath, versionId) ==
  [type |-> "UPDATE_SELECTED_PATH",
   payload |-> [selectedPath |-> selectedPath, versionId |-> versionId]]

beginFetchDiff(addonId, baseVersionId, headVersionId) ==
  [type |-> "BEGIN_FETCH_DIFF",
   payload |-> [addonId |-> addonId, baseVersionId |-> baseVersionId,
                headVersionId |-> headVersionId]]

abortFetchDiff(addonId, baseVersionId, headVersionId) ==
  [type |-> "ABORT_FETCH_DIFF",
   payload |-> [addonId |-> addonId, baseVersionId |-> baseVersionId,
                headVersionId |-> headVersionId]]

loadDiff(addonId, baseVersionId, headVersionId, version) ==
  [type |-> "LOAD_DIFF",
   payload |-> [addonId |-> addonId, baseVersionId |-> baseVersionId,
                headVersionId |-> headVersionId, version |-> version]]

----------------------------------------------------------------------------
(* reducers/versions: the reducer.  Each case yields the next state, or      *)
(* TypeError where the JavaScript raises.                                    *)

reduceLoadVersionInfo(state, payload) ==
  [state EXCEPT !.versionInfo =
     Put(state.versionInfo, payload.version.id, createInternalVersion(payload.version))]

reduceLoadVersionFile(state, payload) ==
  LET id == payload.version.id
      \* {...state.versionFiles[version.id]}: spreading undefined gives {}
      files == IF id \in DOMAIN state.versionFiles THEN state.versionFiles[id] ELSE <<>>
  IN [state EXCEPT !.versionFiles =
        Put(state.versionFiles, id,
            Put(files, payload.path, createInternalVersionFile(payload.version.file)))]

\* updateSelectedPath without the spread of the version's other fields
reduceUpdateSelectedPathReplacing(state, payload) ==
  [state EXCEPT !.versionInfo =
     Put(state.versionInfo, payload.versionId, [selectedPath |-> payload.selectedPath])]

reduceUpdateSelectedPath(state, payload) ==
  LET id == payload.versionId
      \* {...state.versionInfo[versionId]}: spreading undefined gives {}
      version == IF id \in DOMAIN state.versionInfo THEN state.versionInfo[id] ELSE <<>>
  IN [state EXCEPT !.versionInfo =
        Put(state.versionInfo, id, Put(version, "selectedPath", payload.selectedPath))]

\* beginFetchDiff keeping the mapping the key already holds
reduceBeginFetchDiffKeeping(state, payload) ==
  LET key == getDiffsKey(payload.addonId, payload.baseVersionId, payload.headVersionId)
  IN IF key \in DOMAIN state.diffsByPath /\ state.diffsByPath[key] # null
     THEN state
     ELSE [state EXCEPT !.diffsByPath = Put(state.diffsByPath, key, <<>>)]

reduceBeginFetchDiff(state, payload) ==
  LET key == getDiffsKey(payload.addonId, payload.baseVersionId, payload.headVersionId)
  IN [state EXCEPT !.diffsByPath = Put(state.diffsByPath, key, <<>>)]

\* abortFetchDiff handled like beginFetchDiff
reduceAbortFetchDiffAsBegin(state, payload) ==
  LET key == getDiffsKey(payload.addonId, payload.baseVersionId, payload.headVersionId)
  IN [state EXCEPT !.diffsByPath = Put(state.diffsByPath, key, <<>>)]

reduceAbortFetchDiff(state, payload) ==
  LET key == getDiffsKey(payload.addonId, payload.baseVersionId, payload.headVersionId)
  IN [state EXCEPT !.diffsByPath = Put(state.diffsByPath, key, null)]

\* loadDiff writing the new diff over every path the key already holds
reduceLoadDiffOverwriting(state, payload) ==
  LET key == getDiffsKey(payload.addonId, payload.baseVersionId, payload.headVersionId)
      info == getVersionInfo(state, payload.headVersionId)
  IN IF info = undefined \/ "entries" \notin DOMAIN info THEN TypeError
     ELSE LET selectedPath == info.selectedPath
              entry == findEntry(info.entries, selectedPath)
              old == IF key \in DOMAIN state.diffsByPath /\ state.diffsByPath[key] # null
                     THEN state.diffsByPath[key] ELSE <<>>
              new == [diffs |-> createInternalDiffs(payload.baseVersionId,
                                                    payload.headVersionId,
                                                    payload.version),
                      mimeType |-> entry.mimeType]
          IN IF entry = undefined THEN state
             ELSE [state EXCEPT !.diffsByPath =
                     Put(state.diffsByPath, key,
                         [p \in DOMAIN old \cup {selectedPath} |-> new])]

reduceLoadDiff(state, payload) ==
  LET key == getDiffsKey(payload.addonId, payload.baseVersionId, payload.headVersionId)
      info == getVersionInfo(state, payload.headVersionId)
  IN \* const { entries, selectedPath } = undefined, and undefined.find(...), raise
     IF info = undefined \/ "entries" \notin DOMAIN info THEN TypeError
     ELSE LET selectedPath == info.selectedPath
              entry == findEntry(info.entries, selectedPath)
              \* {...state.diffsByPath[key]}: spreading undefined or null gives {}
              old == IF key \in DOMAIN state.diffsByPath /\ state.diffsByPath[key] # null
                     THEN state.diffsByPath[key] ELSE <<>>
          IN IF entry = undefined THEN state
             ELSE [state EXCEPT !.diffsByPath =
                     Put(state.diffsByPath, key,
                         Put(old, selectedPath,
                             [diffs |-> createInternalDiffs(payload.baseVersionId,
                                                            payload.headVersionId,
                                                            payload.version),
                              mimeType |-> entry.mimeType]))]

reducer(state, action) ==
  CASE action.type = "LOAD_VERSION_INFO" -> reduceLoadVersionInfo(state, action.payload)
    [] action.type = "LOAD_VERSION_FILE" -> reduceLoadVersionFile(state, action.payload)
    [] action.type = "UPDATE_SELECTED_PATH" -> reduceUpdateSelectedPath(state, action.payload)
    [] action.type = "BEGIN_FETCH_DIFF" -> reduceBeginFetchDiff(state, action.payload)
    [] action.type = "ABORT_FETCH_DIFF" -> reduceAbortFetchDiff(state, action.payload)
    [] action.type = "LOAD_DIFF" -> reduceLoadDiff(state, action.payload)
    [] OTHER -> state

----------------------------------------------------------------------------
(* What a handler did, kept for the last handler that ran *)

Dispatched(action) == [effect |-> "dispatch", action |-> action]

Raised(error) == [effect |-> "raise", error |-> error]

Pushed(url) == [effect |-> "push", url |-> url]

Called(thunk, args) == [effect |-> "call", thunk |-> thunk, args |-> args]

Requested(api, request) == [effect |-> "request", api |-> api, request |-> request]

NoEffects == [handler |-> "none", log |-> <<>>]

\* store.dispatch(action) of a plain action: the state after it, unchanged when the
\* reducer raises
dispatch(state, action) ==
  LET next == reducer(state, action)
  IN IF next = TypeError THEN state ELSE next

\* the log of store.dispatch(action): the action, then the error it raised, if any
dispatchLog(state, action) ==
  IF reducer(state, action) = TypeError
  THEN <<Dispatched(action), Raised(TypeError)>>
  ELSE <<Dispatched(action)>>

----------------------------------------------------------------------------
(* The store alone: plain actions dispatched in any order, as the tests do  *)
(* with store.dispatch(versionActions.loadDiff(...)).                       *)

AddonIds == {7}

VersionIds == {1, 2}

\* head versions of the comparisons dispatched to the store alone, whose selected
\* path changes
HeadVersionIds == {2}

SelectablePaths == Paths \cup {MissingPath}

\* the files whose diff a dispatched loadDiff carries
DiffPayloadPaths == {EntryPaths[1], EntryPaths[2]}

\* store.dispatch(action).  Each action below is a bulleted conjunction: TLC then
\* evaluates the dispatched action afresh in every state; for a bare \E it evaluates
\* the argument once, ahead of the search, into a value all its workers share
StoreDispatch(action) ==
  /\ versions' = dispatch(versions, action)
  /\ effects' = [handler |-> "store.dispatch", log |-> dispatchLog(versions, action)]
  /\ UNCHANGED <<mounted, params, inflight, pending, issued, history>>

DispatchLoadVersionInfo ==
  /\ \E addonId \in AddonIds, id \in VersionIds, selected \in {DefaultPath} :
       StoreDispatch(loadVersionInfo(ExternalVersionWithDiff(addonId, id, selected)))

\* the file of the default path, as fetchVersion and fetchVersionFile load it
DispatchLoadVersionFile ==
  /\ \E addonId \in AddonIds, id \in HeadVersionIds, path \in {DefaultPath} :
       StoreDispatch(loadVersionFile(path, ExternalVersionWithContent(addonId, id, path)))

DispatchUpdateSelectedPath ==
  /\ \E id \in HeadVersionIds, path \in SelectablePaths :
       StoreDispatch(updateSelectedPath(path, id))

DispatchBeginFetchDiff ==
  /\ \E addonId \in AddonIds, base \in VersionIds, head \in HeadVersionIds :
       StoreDispatch(beginFetchDiff(addonId, base, head))

DispatchAbortFetchDiff ==
  /\ \E addonId \in AddonIds, base \in VersionIds, head \in HeadVersionIds :
       StoreDispatch(abortFetchDiff(addonId, base, head))

DispatchLoadDiff ==
  /\ \E addonId \in AddonIds, base \in VersionIds, head \in HeadVersionIds,
        selected \in DiffPayloadPaths :
       StoreDispatch(loadDiff(addonId, base, head, ExternalVersionWithDiff(addonId, head, selected)))

\* no file selected by the user, no fetch of a selection in flight, none failed
NoSelection == [path |-> <<>>, fetches |-> {}, failed |-> FALSE]

NoHistory == [last |-> <<>>, selection |-> NoSelection]

Init ==
  /\ versions = initialState
  /\ mounted = FALSE
  /\ params = <<>>
  /\ inflight = <<>>
  /\ pending = <<>>
  /\ issued = 0
  /\ effects = NoEffects
  /\ history = NoHistory

NextStore ==
  \/ DispatchLoadVersionInfo
  \/ DispatchLoadVersionFile
  \/ DispatchUpdateSelectedPath
  \/ DispatchBeginFetchDiff
  \/ DispatchAbortFetchDiff
  \/ DispatchLoadDiff

SpecStore == Init /\ [][NextStore]_vars

----------------------------------------------------------------------------
(* The API client (api/index): getDiff and getVersion answer either an      *)
(* error response or the payload of the version asked for.                  *)

\* versions the API knows
ServerVersionIds == {1, 2, RequestedHeadVersionId}

ErrorResponse == [error |-> "error response"]

isErrorResponse(response) == "error" \in DOMAIN response

\* an optional argument `path?: string`: no path, or the path given
NoPath == <<>>

ThePath(path) == <<path>>

\* what the API answers with when it does not fail
getDiff(request) ==
  ExternalVersionWithDiff(request.addonId, request.headVersionId,
                          IF request.path = NoPath THEN DefaultPath ELSE request.path[1])

getVersion(request) ==
  ExternalVersionWithContent(request.addonId, request.versionId,
                             IF request.path = NoPath THEN DefaultPath ELSE request.path[1])

\* the responses the caller of getDiff may receive
getDiffResponses(request) ==
  {ErrorResponse} \cup
  (IF {request.baseVersionId, request.headVersionId} \subseteq ServerVersionIds
   THEN {getDiff(request)} ELSE {})

getVersionResponses(request) ==
  {ErrorResponse} \cup
  (IF request.versionId \in ServerVersionIds THEN {getVersion(request)} ELSE {})

----------------------------------------------------------------------------
(* reducers/versions: the thunks.  A thunk runs up to its await when it is   *)
(* dispatched and from its await to its end when the response arrives.       *)

FetchDiffParams(addonId, baseVersionId, headVersionId, path) ==
  [addonId |-> addonId, baseVersionId |-> baseVersionId,
   headVersionId |-> headVersionId, path |-> path]

\* the plain actions fetchDiff dispatches before its request
fetchDiffBegin(args) ==
  <<beginFetchDiff(args.addonId, args.baseVersionId, args.headVersionId)>>

\* the argument of _getDiff (apiState left out)
fetchDiffRequest(args) ==
  [addonId |-> args.addonId, baseVersionId |-> args.baseVersionId,
   headVersionId |-> RequestedHeadVersionId, path |-> args.path]

\* fetchDiff only logging an error response, as fetchVersion does
fetchDiffEndLoggingOnly(args, response) ==
  IF isErrorResponse(response) THEN <<>>
  ELSE <<loadVersionInfo(response),
         loadDiff(args.addonId, args.baseVersionId, args.headVersionId, response)>>

\* the plain actions fetchDiff dispatches, in order, when `response` arrives
fetchDiffEnd(args, response) ==
  IF isErrorResponse(response)
  THEN <<abortFetchDiff(args.addonId, args.baseVersionId, args.headVersionId)>>
  ELSE <<loadVersionInfo(response),
         loadDiff(args.addonId, args.baseVersionId, args.headVersionId, response)>>

FetchVersionParams(addonId, versionId, path) ==
  [addonId |-> addonId, versionId |-> versionId, path |-> path]

\* fetchVersion (no path) dispatches nothing before its request;
\* fetchVersionFile selects the path
fetchVersionBegin(args) ==
  IF args.path = NoPath THEN <<>>
  ELSE <<updateSelectedPath(args.path[1], args.versionId)>>

fetchVersionRequest(args) ==
  [addonId |-> args.addonId, versionId |-> args.versionId, path |-> args.path]

fetchVersionEnd(args, response) ==
  IF isErrorResponse(response) THEN <<>>
  ELSE IF args.path = NoPath
       THEN <<loadVersionInfo(response), loadVersionFile(response.file.selected_file, response)>>
       ELSE <<loadVersionFile(args.path[1], response)>>

RECURSIVE dispatchAll(_, _)
\* the state after dispatching the actions in order; a raise ends the run of the
\* handler, the actions before it stay applied
dispatchAll(state, actions) ==
  IF actions = <<>> THEN state
  ELSE IF reducer(state, Head(actions)) = TypeError THEN state
       ELSE dispatchAll(reducer(state, Head(actions)), Tail(actions))

RECURSIVE dispatchAllLog(_, _)
dispatchAllLog(state, actions) ==
  IF actions = <<>> THEN <<>>
  ELSE IF reducer(state, Head(actions)) = TypeError
       THEN <<Dispatched(Head(actions)), Raised(TypeError)>>
       ELSE <<Dispatched(Head(actions))>>
            \o dispatchAllLog(reducer(state, Head(actions)), Tail(actions))

----------------------------------------------------------------------------
(* pages/Compare: CompareBase.  A handler is given as what it does: the     *)
(* URLs it pushes, the plain actions it dispatches and the fetchDiff thunks  *)
(* it dispatches, in that order.                                             *)

RouteParams(lang, addonId, baseVersionId, headVersionId) ==
  [lang |-> lang, addonId |-> addonId, baseVersionId |-> baseVersionId,
   headVersionId |-> headVersionId]

mapStateToProps(state, p) ==
  [addonId |-> parseInt(p.addonId),
   version |-> getVersionInfo(state, parseInt(p.headVersionId)),
   compareInfoMap |-> getCompareInfoMap(state, parseInt(p.addonId), parseInt(p.baseVersionId),
                                        parseInt(p.headVersionId))]

\* loadData comparing the versions only
loadDataIgnoringAddon(prevParams, p) ==
  IF \/ prevParams = undefined
     \/ p.baseVersionId # prevParams.baseVersionId
     \/ p.headVersionId # prevParams.headVersionId
  THEN [pushes |-> <<>>, actions |-> <<>>,
        calls |-> <<FetchDiffParams(parseInt(p.addonId), parseInt(p.baseVersionId),
                                    parseInt(p.headVersionId), NoPath)>>]
  ELSE [pushes |-> <<>>, actions |-> <<>>, calls |-> <<>>]

\* loadData fetching whatever the previous parameters were
loadDataAlways(prevParams, p) ==
  [pushes |-> <<>>, actions |-> <<>>,
   calls |-> <<FetchDiffParams(parseInt(p.addonId), parseInt(p.baseVersionId),
                               parseInt(p.headVersionId), NoPath)>>]

loadData(prevParams, p) ==
  IF \/ prevParams = undefined
     \/ p.addonId # prevParams.addonId
     \/ p.baseVersionId # prevParams.baseVersionId
     \/ p.headVersionId # prevParams.headVersionId
  THEN [pushes |-> <<>>, actions |-> <<>>,
        calls |-> <<FetchDiffParams(parseInt(p.addonId), parseInt(p.baseVersionId),
                                    parseInt(p.headVersionId), NoPath)>>]
  ELSE [pushes |-> <<>>, actions |-> <<>>, calls |-> <<>>]

\* componentDidMount without the return that follows history.push
componentDidMountFallingThrough(p) ==
  LET url == <<"/">> \o p.lang \o <<"/compare/">> \o p.addonId \o <<"/versions/">>
             \o p.headVersionId \o <<"...">> \o p.baseVersionId \o <<"/">>
  IN [loadData(undefined, p) EXCEPT
        !.pushes = IF parseInt(p.baseVersionId) > parseInt(p.headVersionId)
                   THEN <<url>> ELSE <<>>]

componentDidMount(p) ==
  IF parseInt(p.baseVersionId) > parseInt(p.headVersionId)
  THEN [pushes |-> << <<"/">> \o p.lang \o <<"/compare/">> \o p.addonId \o <<"/versions/">>
                      \o p.headVersionId \o <<"...">> \o p.baseVersionId \o <<"/">> >>,
        actions |-> <<>>, calls |-> <<>>]
  ELSE loadData(undefined, p)

componentDidUpdate(prevParams, p) == loadData(prevParams, p)

\* !compareInfoMap || !compareInfoMap[path]
lacksDiff(compareInfoMap, path) ==
  \/ compareInfoMap = undefined
  \/ compareInfoMap = null
  \/ path \notin DOMAIN compareInfoMap

onSelectFile(props, p, path) ==
  [pushes |-> <<>>,
   actions |-> <<updateSelectedPath(path, parseInt(p.headVersionId))>>,
   calls |-> IF lacksDiff(props.compareInfoMap, path)
             THEN <<FetchDiffParams(parseInt(p.addonId), parseInt(p.baseVersionId),
                                    parseInt(p.headVersionId), ThePath(path))>>
             ELSE <<>>]

\* what render() shows
render(props) ==
  IF props.version = undefined THEN {"Loading version"}
  ELSE {"FileTree", "VersionChooser"}
       \cup (IF props.compareInfoMap = null THEN {"ERROR"} ELSE {})
       \cup (IF /\ props.compareInfoMap # undefined
                /\ props.compareInfoMap # null
                /\ "selectedPath" \in DOMAIN props.version
                /\ props.version.selectedPath \in DOMAIN props.compareInfoMap
             THEN {"DiffView"} ELSE {"Loading diff"})

----------------------------------------------------------------------------
(* The running application: the mounted page, the thunks and the API *)

Langs == {<<"f", "r">>, <<"e", "s">>}

AddonIdParams == {<<"7">>, <<"0", "7">>}

BaseVersionIdParams == {<<"1">>, <<"2">>}

HeadVersionIdParams == {<<"1">>, <<"1", "2", "3">>}

\* versions that other pages fetch
BrowsedVersionIds == {1}

AllRouteParams ==
  {RouteParams(lang, addonId, base, head) :
     lang \in Langs, addonId \in AddonIdParams,
     base \in BaseVersionIdParams, head \in HeadVersionIdParams}

\* room for `n` more API requests
CanRequest(n) ==
  /\ issued + n <= MaxRequests
  /\ Len(inflight) + Len(pending) + n <= MaxInFlight

\* the fetchDiff thunks of `calls`, as entries of inflight, numbered in issue order
Issue(calls) ==
  [i \in 1..Len(calls) |->
     [id |-> issued + i, args |-> calls[i], request |-> fetchDiffRequest(calls[i])]]

\* the key of the arguments of a fetchDiff
FetchKey(args) == getDiffsKey(args.addonId, args.baseVersionId, args.headVersionId)

\* the last fetch issued for each key, once `calls` are issued
LastIssued(last, calls) ==
  [key \in DOMAIN last \cup {FetchKey(calls[i]) : i \in 1..Len(calls)} |->
     IF \E i \in 1..Len(calls) : FetchKey(calls[i]) = key
     THEN [id |-> issued + CHOOSE i \in 1..Len(calls) :
                             /\ FetchKey(calls[i]) = key
                             /\ \A j \in (i + 1)..Len(calls) : FetchKey(calls[j]) # key,
           outcome |-> "in flight"]
     ELSE last[key]]

\* how a fetchDiff ended: its response and the log of its dispatches
Outcome(response, log) ==
  IF \E i \in 1..Len(log) : log[i].effect = "raise" THEN "raised"
  ELSE IF isErrorResponse(response) THEN "aborted"
  ELSE "loaded"

RECURSIVE beginAll(_)
\* the plain actions the fetchDiff thunks of `calls` dispatch before their requests
beginAll(calls) ==
  IF calls = <<>> THEN <<>> ELSE fetchDiffBegin(Head(calls)) \o beginAll(Tail(calls))

\* the log of a handler: pushes, plain actions, then each thunk with its begin and request
LogOf(state, did) ==
  [i \in 1..Len(did.pushes) |-> Pushed(did.pushes[i])]
  \o dispatchAllLog(state, did.actions)
  \o (IF did.calls = <<>> THEN <<>>
      ELSE <<Called("fetchDiff", did.calls[1])>>
           \o dispatchAllLog(dispatchAll(state, did.actions), fetchDiffBegin(did.calls[1]))
           \o <<Requested("getDiff", fetchDiffRequest(did.calls[1]))>>)

\* a handler of the page runs
Handle(name, did, selection) ==
  /\ CanRequest(Len(did.calls))
  /\ versions' = dispatchAll(versions, did.actions \o beginAll(did.calls))
  /\ inflight' = inflight \o Issue(did.calls)
  /\ issued' = issued + Len(did.calls)
  /\ effects' = [handler |-> name, log |-> LogOf(versions, did)]
  /\ history' = [last |-> LastIssued(history.last, did.calls), selection |-> selection]
  /\ UNCHANGED pending

Mount ==
  /\ ~mounted
  /\ \E p \in AllRouteParams :
       /\ mounted' = TRUE
       /\ params' = p
       /\ Handle("componentDidMount", componentDidMount(p), NoSelection)

Unmount ==
  /\ mounted
  /\ mounted' = FALSE
  /\ params' = <<>>
  /\ effects' = [handler |-> "unmount", log |-> <<>>]
  /\ history' = [history EXCEPT !.selection = NoSelection]
  /\ UNCHANGED <<versions, inflight, pending, issued>>

Update ==
  /\ mounted
  /\ \E p \in AllRouteParams :
       /\ params' = p
       /\ Handle("componentDidUpdate", componentDidUpdate(params, p), NoSelection)
  /\ UNCHANGED mounted

\* the file tree is rendered once the head version is in the store, and offers its entries
SelectFile ==
  /\ mounted
  /\ LET props == mapStateToProps(versions, params)
     IN /\ "FileTree" \in render(props)
        /\ "entries" \in DOMAIN props.version
        /\ \E i \in 1..Len(props.version.entries) :
             LET path == props.version.entries[i].path
                 did == onSelectFile(props, params, path)
             IN Handle("onSelectFile", did,
                       [history.selection EXCEPT
                          !.path = <<path>>,
                          !.fetches = @ \cup {issued + k : k \in 1..Len(did.calls)}])
  /\ UNCHANGED <<mounted, params>>

\* remove the i-th element
Without(seq, i) == SubSeq(seq, 1, i - 1) \o SubSeq(seq, i + 1, Len(seq))

\* the response of a getDiff request arrives and fetchDiff runs to its end
ResolveDiff ==
  \E i \in 1..Len(inflight) :
    \E response \in getDiffResponses(inflight[i].request) :
      LET actions == fetchDiffEnd(inflight[i].args, response)
          log == dispatchAllLog(versions, actions)
          key == FetchKey(inflight[i].args)
      IN /\ versions' = dispatchAll(versions, actions)
         /\ inflight' = Without(inflight, i)
         /\ effects' = [handler |-> "fetchDiff", id |-> inflight[i].id,
                        args |-> inflight[i].args, response |-> response, log |-> log]
         /\ history' =
              [last |-> IF history.last[key].id = inflight[i].id
                        THEN [history.last EXCEPT ![key].outcome = Outcome(response, log)]
                        ELSE history.last,
               selection |-> IF inflight[i].id \in history.selection.fetches
                             THEN [history.selection EXCEPT
                                     !.fetches = @ \ {inflight[i].id},
                                     !.failed = @ \/ Outcome(response, log) # "loaded"]
                             ELSE history.selection]
         /\ UNCHANGED <<mounted, params, pending, issued>>

\* another page dispatches fetchVersion (no path) or fetchVersionFile
FetchVersion ==
  /\ CanRequest(1)
  /\ \E addonId \in AddonIds, versionId \in BrowsedVersionIds,
        path \in {NoPath, ThePath(DefaultPath)} :
       LET args == FetchVersionParams(addonId, versionId, path)
       IN /\ versions' = dispatchAll(versions, fetchVersionBegin(args))
          /\ pending' = Append(pending, [args |-> args, request |-> fetchVersionRequest(args)])
          /\ issued' = issued + 1
          /\ effects' = [handler |-> "fetchVersion",
                         log |-> <<Called("fetchVersion", args)>>
                                 \o dispatchAllLog(versions, fetchVersionBegin(args))
                                 \o <<Requested("getVersion", fetchVersionRequest(args))>>]
  /\ UNCHANGED <<mounted, params, inflight, history>>

ResolveVersion ==
  \E i \in 1..Len(pending) :
    \E response \in getVersionResponses(pending[i].request) :
      LET actions == fetchVersionEnd(pending[i].args, response)
      IN /\ versions' = dispatchAll(versions, actions)
         /\ pending' = Without(pending, i)
         /\ effects' = [handler |-> "fetchVersion.end", args |-> pending[i].args,
                        response |-> response, log |-> dispatchAllLog(versions, actions)]
         /\ UNCHANGED <<mounted, params, inflight, issued, history>>

Next ==
  \/ Mount
  \/ Unmount
  \/ Update
  \/ SelectFile
  \/ ResolveDiff
  \/ FetchVersion
  \/ ResolveVersion

Spec == Init /\ [][Next]_vars

----------------------------------------------------------------------------
(* The user browsing the files of a comparison: the page is mounted, its      *)
(* fetch has succeeded, and the user selects files while responses arrive.   *)

BrowsingParams == RouteParams(<<"e", "s">>, <<"7">>, <<"2">>, <<"1", "2", "3">>)

\* the fetch of componentDidMount for BrowsingParams
BrowsingFetch == loadData(undefined, BrowsingParams).calls[1]

\* the page mounted with BrowsingParams after the successful response of its fetch;
\* `issued` counts the requests from here on
InitBrowsing ==
  /\ versions = dispatchAll(initialState,
                            fetchDiffBegin(BrowsingFetch)
                            \o fetchDiffEnd(BrowsingFetch, getDiff(fetchDiffRequest(BrowsingFetch))))
  /\ mounted = TRUE
  /\ params = BrowsingParams
  /\ inflight = <<>>
  /\ pending = <<>>
  /\ issued = 0
  /\ effects = NoEffects
  /\ history = [last |-> FetchKey(BrowsingFetch) :> [id |-> 0, outcome |-> "loaded"],
                selection |-> NoSelection]

NextBrowsing ==
  \/ SelectFile
  \/ ResolveDiff

SpecBrowsing == InitBrowsing /\ [][NextBrowsing]_vars

----------------------------------------------------------------------------
(* createInternalDiffs alone: applied once to a raw diff of one hunk with    *)
(* two changes.                                                              *)

ChangeTypes == {"delete", "insert", "normal"}

\* line numbers of a raw change
LineNumbers == {0, 5, 7}

\* the git status letters, and codes that GIT_STATUS_TO_TYPE does not list
ModeCodes == {"A", "C", "D", "M", "R", "T", "U", "X", "?"}

RawChanges ==
  [content : {"line"}, new_line_number : LineNumbers, old_line_number : LineNumbers,
   type : ChangeTypes]

\* a version whose diff is one file with the hunk <<first, second>>
RawVersionWithDiff(mode, first, second) ==
  LET version == ExternalVersionWithDiff(7, 2, DefaultPath)
      hunk == [version.file.diff[1].hunks[1] EXCEPT !.changes = <<first, second>>]
      diff == [version.file.diff[1] EXCEPT !.mode = mode, !.hunks = <<hunk>>]
  IN [version EXCEPT !.file.diff = <<diff>>]

InitDiffs ==
  /\ versions = initialState
  /\ mounted = FALSE
  /\ params = <<>>
  /\ inflight = <<>>
  /\ pending = <<>>
  /\ issued = 0
  /\ history = NoHistory
  /\ \E mode \in ModeCodes, first \in RawChanges, second \in RawChanges :
       effects = [handler |-> "none",
                  args |-> [baseVersionId |-> 1, headVersionId |-> 2,
                            version |-> RawVersionWithDiff(mode, first, second)]]

CreateInternalDiffs ==
  /\ effects.handler = "none"
  /\ effects' = [handler |-> "createInternalDiffs", args |-> effects.args,
                 result |-> createInternalDiffs(effects.args.baseVersionId,
                                                effects.args.headVersionId,
                                                effects.args.version)]
  /\ UNCHANGED <<versions, mounted, params, inflight, pending, issued, history>>

NextDiffs == CreateInternalDiffs

SpecDiffs == InitDiffs /\ [][NextDiffs]_vars

----------------------------------------------------------------------------
(* Properties *)

CallsIn(log) == SelectSeq(log, LAMBDA e : e.effect = "call")

DispatchesIn(log) == SelectSeq(log, LAMBDA e : e.effect = "dispatch")

RequestsIn(log) == SelectSeq(log, LAMBDA e : e.effect = "request")

\* the parameters name a base version newer than the head version
BaseIsNewer(p) == parseInt(p.baseVersionId) > parseInt(p.headVersionId)

\* the one session-level fetch of the parameters p: integer ids, no path
SessionFetch(p) ==
  Called("fetchDiff", [addonId |-> parseInt(p.addonId), baseVersionId |-> parseInt(p.baseVersionId),
                       headVersionId |-> parseInt(p.headVersionId), path |-> NoPath])

\* C1: mounting with baseVersionId > headVersionId pushes exactly the URL
\* /{lang}/compare/{addonId}/versions/{headVersionId}...{baseVersionId}/ once and
\* does nothing else: no dispatch to the store, no thunk, no request.
C1_RedirectOnMount ==
  (mounted /\ effects.handler = "componentDidMount" /\ BaseIsNewer(params)) =>
    effects.log = << Pushed(<<"/">> \o params.lang \o <<"/compare/">> \o params.addonId
                            \o <<"/versions/">> \o params.headVersionId \o <<"...">>
                            \o params.baseVersionId \o <<"/">>) >>

C1_Witness ==
  /\ mounted
  /\ effects.handler = "componentDidMount"
  /\ BaseIsNewer(params)
  /\ params.lang = <<"e", "s">>
  /\ effects.log = << Pushed(<<"/", "e", "s", "/compare/", "0", "7", "/versions/", "1", "...",
                               "2", "/">>) >>

\* C2: a mount with baseVersionId <= headVersionId, and every parameter update that
\* changes addonId, baseVersionId or headVersionId, dispatches exactly one fetchDiff,
\* called with the integer values of the new parameters and no path.
C2_FetchOnMountAndChange ==
  /\ [](mounted /\ effects.handler = "componentDidMount" /\ ~BaseIsNewer(params)
          => CallsIn(effects.log) = <<SessionFetch(params)>>)
  /\ [][(/\ effects'.handler = "componentDidUpdate"
         /\ \/ params'.addonId # params.addonId
            \/ params'.baseVersionId # params.baseVersionId
            \/ params'.headVersionId # params.headVersionId)
          => CallsIn(effects'.log) = <<SessionFetch(params')>>]_vars

C2_Witness ==
  /\ mounted
  /\ effects.handler = "componentDidUpdate"
  /\ params.addonId = <<"0", "7">>
  /\ CallsIn(effects.log) =
       <<Called("fetchDiff", [addonId |-> 7, baseVersionId |-> 2, headVersionId |-> 123,
                              path |-> NoPath])>>

\* C3: a parameter update that leaves addonId, baseVersionId and headVersionId as they
\* were dispatches nothing (no begin event, no thunk, no request) and leaves the store
\* and the requests in flight as they were.
C3_NoFetchWithoutChange ==
  [][(/\ effects'.handler = "componentDidUpdate"
      /\ params'.addonId = params.addonId
      /\ params'.baseVersionId = params.baseVersionId
      /\ params'.headVersionId = params.headVersionId)
       => /\ effects'.log = <<>>
          /\ versions' = versions
          /\ inflight' = inflight
          /\ issued' = issued]_vars

C3_Witness ==
  /\ mounted
  /\ effects.handler = "componentDidUpdate"
  /\ effects.log = <<>>
  /\ versions.diffsByPath # <<>>

\* the plain action of the last store.dispatch
LastAction(e) == e.log[1].action

\* the key of a begin, abort or loadDiff payload
KeyOf(payload) == getDiffsKey(payload.addonId, payload.baseVersionId, payload.headVersionId)

\* the metadata of versionId is in the store, with a file entry for its selectedPath
SelectedEntryExists(state, versionId) ==
  /\ versionId \in DOMAIN state.versionInfo
  /\ "entries" \in DOMAIN state.versionInfo[versionId]
  /\ \E i \in 1..Len(state.versionInfo[versionId].entries) :
       state.versionInfo[versionId].entries[i].path = state.versionInfo[versionId].selectedPath

\* m is a mapping from paths to diffs: neither undefined nor null
IsMapping(m) == m # undefined /\ m # null

\* C4: in the initial store getCompareInfoMap is undefined for every key; right after
\* beginFetchDiff the key's mapping is the empty mapping; right after abortFetchDiff it
\* is null; right after loadDiff, when the head version's metadata has an entry for its
\* selectedPath, it is a mapping that contains that selectedPath.
C4_ThreeStateCache ==
  /\ (versions = initialState =>
        \A addonId \in AddonIds, base \in VersionIds, head \in VersionIds :
          getCompareInfoMap(versions, addonId, base, head) = undefined)
  /\ [][effects'.handler = "store.dispatch" =>
          LET a == LastAction(effects')
              after == Get(versions'.diffsByPath, KeyOf(a.payload))
          IN /\ a.type = "BEGIN_FETCH_DIFF" => after = <<>>
             /\ a.type = "ABORT_FETCH_DIFF" => after = null
             /\ (a.type = "LOAD_DIFF" /\ SelectedEntryExists(versions, a.payload.headVersionId))
                  => /\ IsMapping(after)
                     /\ versions.versionInfo[a.payload.headVersionId].selectedPath
                          \in DOMAIN after]_vars

C4_Witness ==
  /\ effects.handler = "store.dispatch"
  /\ LastAction(effects).type = "LOAD_DIFF"
  /\ SelectedEntryExists(versions, 2)
  /\ versions.versionInfo[2].selectedPath = "style.css"
  /\ DOMAIN getCompareInfoMap(versions, 7, 1, 2) = {"style.css"}
  /\ getCompareInfoMap(versions, 7, 2, 2) = null

\* C5: loadDiff for a key whose mapping already holds diffs for two paths A and B, the
\* head version's selectedPath being a third path C with an entry, gives a mapping that
\* contains A, B and C with the values of A and B as they were, and leaves the mapping
\* of every other key as it was.
C5_MergeKeepsSiblings ==
  [][(/\ effects'.handler = "store.dispatch"
      /\ LastAction(effects').type = "LOAD_DIFF"
      /\ SelectedEntryExists(versions, LastAction(effects').payload.headVersionId)
      /\ IsMapping(Get(versions.diffsByPath, KeyOf(LastAction(effects').payload))))
       => LET a == LastAction(effects')
              key == KeyOf(a.payload)
              C == versions.versionInfo[a.payload.headVersionId].selectedPath
              before == versions.diffsByPath[key]
              after == Get(versions'.diffsByPath, key)
          IN /\ \A A \in DOMAIN before, B \in DOMAIN before :
                  (A # B /\ C \notin {A, B}) =>
                    /\ IsMapping(after)
                    /\ {A, B, C} \subseteq DOMAIN after
                    /\ after[A] = before[A]
                    /\ after[B] = before[B]
             /\ DOMAIN versions'.diffsByPath = DOMAIN versions.diffsByPath
             /\ \A other \in DOMAIN versions.diffsByPath \ {key} :
                  versions'.diffsByPath[other] = versions.diffsByPath[other]]_vars

C5_Witness ==
  /\ effects.handler = "store.dispatch"
  /\ LastAction(effects).type = "LOAD_DIFF"
  /\ Len(effects.log) = 1
  /\ SelectedEntryExists(versions, 2)
  /\ DOMAIN getCompareInfoMap(versions, 7, 1, 2) = Paths
  /\ \E p \in Paths :
       /\ getCompareInfoMap(versions, 7, 1, 2)[p].diffs[1].newPath # LastAction(effects).payload.version.file.selected_file
       /\ p # versions.versionInfo[2].selectedPath
  /\ IsMapping(getCompareInfoMap(versions, 7, 2, 2))
  /\ DOMAIN getCompareInfoMap(versions, 7, 2, 2) # {}

\* C6: the fetch that onSelectFile issues for a path not yet in the current key's
\* mapping emits no begin event, so the diffs cached for the key's other paths are
\* still in the mapping once the handler has run.
C6_ScopedFetchKeepsCache ==
  [][effects'.handler = "onSelectFile" =>
       LET before == mapStateToProps(versions, params).compareInfoMap
           after == mapStateToProps(versions', params).compareInfoMap
       IN /\ \A i \in 1..Len(effects'.log) :
               effects'.log[i].effect = "dispatch" =>
                 effects'.log[i].action.type # "BEGIN_FETCH_DIFF"
          /\ IsMapping(before) =>
               /\ IsMapping(after)
               /\ DOMAIN before \subseteq DOMAIN after]_vars

\* C7: every request fetchDiff sends to getDiff carries the addonId, baseVersionId,
\* headVersionId and path that fetchDiff was called with.
C7_RequestCarriesArguments ==
  \A i \in 1..Len(inflight) :
    inflight[i].request = [addonId |-> inflight[i].args.addonId,
                           baseVersionId |-> inflight[i].args.baseVersionId,
                           headVersionId |-> inflight[i].args.headVersionId,
                           path |-> inflight[i].args.path]

\* C8: when getDiff answers with an error response, fetchDiff dispatches abortFetchDiff
\* for the key it was called with and nothing else (no loadVersionInfo, no loadDiff),
\* nothing is raised, and the key's mapping is null.
C8_ErrorResponseAborts ==
  effects.handler = "fetchDiff" =>
    (isErrorResponse(effects.response) =>
       /\ effects.log = << [effect |-> "dispatch",
                            action |-> [type |-> "ABORT_FETCH_DIFF",
                                        payload |-> [addonId |-> effects.args.addonId,
                                                     baseVersionId |-> effects.args.baseVersionId,
                                                     headVersionId |-> effects.args.headVersionId]]] >>
       /\ getCompareInfoMap(versions, effects.args.addonId, effects.args.baseVersionId,
                            effects.args.headVersionId) = null)

C8_Witness ==
  /\ effects.handler = "fetchDiff"
  /\ isErrorResponse(effects.response)
  /\ effects.args.headVersionId = 1
  /\ getCompareInfoMap(versions, 7, 2, 1) = null
  /\ Len(inflight) = 1

\* C9: loadDiff applied when the head version's metadata has no file entry matching its
\* selectedPath leaves the state as it was and raises nothing.
C9_NoEntryIsNoOp ==
  [][(/\ effects'.handler = "store.dispatch"
      /\ LastAction(effects').type = "LOAD_DIFF"
      /\ LastAction(effects').payload.headVersionId \in DOMAIN versions.versionInfo
      /\ ~SelectedEntryExists(versions, LastAction(effects').payload.headVersionId))
       => /\ versions' = versions
          /\ effects'.log = <<Dispatched(LastAction(effects'))>>]_vars

\* C10: loadDiff applied alone to a store without metadata for the head version stores
\* the normalized metadata of the payload under the head version id, and the key's
\* mapping contains the payload's selected file.
C10_LoadDiffStoresVersion ==
  [][(/\ effects'.handler = "store.dispatch"
      /\ LastAction(effects').type = "LOAD_DIFF"
      /\ LastAction(effects').payload.headVersionId \notin DOMAIN versions.versionInfo)
       => LET a == LastAction(effects')
              after == Get(versions'.diffsByPath, KeyOf(a.payload))
          IN /\ getVersionInfo(versions', a.payload.headVersionId)
                  = createInternalVersion(a.payload.version)
             /\ IsMapping(after)
             /\ a.payload.version.file.selected_file \in DOMAIN after]_vars

\* C11: loadVersionFile for a version id without metadata in versionInfo leaves the
\* state as it was: no entry is created in versionFiles for that version.
C11_LoadVersionFileNeedsVersion ==
  [][(/\ effects'.handler = "store.dispatch"
      /\ LastAction(effects').type = "LOAD_VERSION_FILE"
      /\ LastAction(effects').payload.version.id \notin DOMAIN versions.versionInfo)
       => /\ versions' = versions
          /\ LastAction(effects').payload.version.id \notin DOMAIN versions'.versionFiles]_vars

\* the raw diff given to createInternalDiffs, and the diff it returned
RawDiff == effects.args.version.file.diff[1]

InternalDiff == effects.result[1]

\* C12: the lineNumber of a normalized change is new_line_number when the raw change
\* is an insert or a normal line and old_line_number when it is a delete.
C12_LineNumber ==
  effects.handler = "createInternalDiffs" =>
    \A i \in 1..Len(RawDiff.hunks[1].changes) :
      LET raw == RawDiff.hunks[1].changes[i]
      IN InternalDiff.hunks[1].changes[i].lineNumber =
           (IF raw.type \in {"insert", "normal"} THEN raw.new_line_number
            ELSE raw.old_line_number)

\* C13: the type of a normalized diff is add for mode A, copy for C, delete for D,
\* modify for M, rename for R, and modify for every other mode code.
C13_ModeToType ==
  effects.handler = "createInternalDiffs" =>
    InternalDiff.type = (CASE RawDiff.mode = "A" -> "add"
                           [] RawDiff.mode = "C" -> "copy"
                           [] RawDiff.mode = "D" -> "delete"
                           [] RawDiff.mode = "M" -> "modify"
                           [] RawDiff.mode = "R" -> "rename"
                           [] OTHER -> "modify")

C13_Witness ==
  /\ effects.handler = "createInternalDiffs"
  /\ RawDiff.mode = "X"
  /\ InternalDiff.type = "modify"
  /\ InternalDiff.newMode = "X"

\* the fields of the metadata stored for versionId, none when there is no metadata
FieldsOf(state, versionId) ==
  IF versionId \in DOMAIN state.versionInfo THEN DOMAIN state.versionInfo[versionId] ELSE {}

\* C14: updateSelectedPath(versionId, newPath) sets the selectedPath of that version's
\* metadata and changes nothing else: the other fields of that version, the metadata
\* of every other version, diffsByPath, versionFiles and byAddonId are as they were.
C14_UpdateSelectedPathFrame ==
  [][(/\ effects'.handler = "store.dispatch"
      /\ LastAction(effects').type = "UPDATE_SELECTED_PATH")
       => LET id == LastAction(effects').payload.versionId
              newPath == LastAction(effects').payload.selectedPath
          IN /\ versions'.versionInfo[id].selectedPath = newPath
             /\ FieldsOf(versions', id) \ {"selectedPath"}
                  = FieldsOf(versions, id) \ {"selectedPath"}
             /\ \A f \in FieldsOf(versions, id) \ {"selectedPath"} :
                  versions'.versionInfo[id][f] = versions.versionInfo[id][f]
             /\ DOMAIN versions'.versionInfo = DOMAIN versions.versionInfo \cup {id}
             /\ \A other \in DOMAIN versions.versionInfo \ {id} :
                  versions'.versionInfo[other] = versions.versionInfo[other]
             /\ versions'.diffsByPath = versions.diffsByPath
             /\ versions'.versionFiles = versions.versionFiles
             /\ versions'.byAddonId = versions.byAddonId]_vars

C14_Witness ==
  /\ effects.handler = "store.dispatch"
  /\ LastAction(effects).type = "UPDATE_SELECTED_PATH"
  /\ LastAction(effects).payload.selectedPath = "index.js"
  /\ versions.versionInfo[2] =
       [createInternalVersion(ExternalVersionWithDiff(7, 2, DefaultPath))
          EXCEPT !.selectedPath = "index.js"]
  /\ 1 \in DOMAIN versions.versionInfo
  /\ DOMAIN getCompareInfoMap(versions, 7, 1, 2) = {"manifest.json"}
  /\ 2 \in DOMAIN versions.versionFiles

\* C20: beginFetchDiff sets the key's mapping to the empty mapping whatever it held
\* (undefined, null or cached paths) and leaves the mappings of all other keys,
\* versionInfo and versionFiles as they were.
C20_BeginResetsKey ==
  [][(/\ effects'.handler = "store.dispatch"
      /\ LastAction(effects').type = "BEGIN_FETCH_DIFF")
       => LET key == KeyOf(LastAction(effects').payload)
          IN /\ Get(versions'.diffsByPath, key) = <<>>
             /\ DOMAIN versions'.diffsByPath = DOMAIN versions.diffsByPath \cup {key}
             /\ \A other \in DOMAIN versions.diffsByPath \ {key} :
                  versions'.diffsByPath[other] = versions.diffsByPath[other]
             /\ versions'.versionInfo = versions.versionInfo
             /\ versions'.versionFiles = versions.versionFiles]_vars

C20_Witness ==
  /\ effects.handler = "store.dispatch"
  /\ LastAction(effects).type = "BEGIN_FETCH_DIFF"
  /\ KeyOf(LastAction(effects).payload) = getDiffsKey(7, 1, 2)
  /\ getCompareInfoMap(versions, 7, 1, 2) = <<>>
  /\ DOMAIN getCompareInfoMap(versions, 7, 2, 2) = {"manifest.json", "index.js"}
  /\ SelectedEntryExists(versions, 2)
  /\ 2 \in DOMAIN versions.versionFiles

\* C15: the begin event of a fetch and its completion event are not interleaved with
\* the events of another fetch for the same key: no fetch begins for a key while
\* another fetch for that key has begun and not completed.
C15_FetchesOfAKeyAreOrdered ==
  \A i \in 1..Len(inflight), j \in 1..Len(inflight) :
    i # j => KeyOf(inflight[i].args) # KeyOf(inflight[j].args)

\* C16: at most one diff fetch is in flight for each parameter tuple
\* (addonId, baseVersionId, headVersionId, path).
C16_OneFetchPerTuple ==
  \A i \in 1..Len(inflight), j \in 1..Len(inflight) :
    i # j => inflight[i].args # inflight[j].args

\* C17: when the parameters of a mounted page change to values with
\* baseVersionId > headVersionId, the page pushes the swapped URL and does nothing
\* else: no begin event, no thunk, no request.
C17_RedirectOnUpdate ==
  [][(/\ effects'.handler = "componentDidUpdate"
      /\ \/ params'.addonId # params.addonId
         \/ params'.baseVersionId # params.baseVersionId
         \/ params'.headVersionId # params.headVersionId
      /\ BaseIsNewer(params'))
       => effects'.log = << Pushed(<<"/">> \o params'.lang \o <<"/compare/">> \o params'.addonId
                                  \o <<"/versions/">> \o params'.headVersionId \o <<"...">>
                                  \o params'.baseVersionId \o <<"/">>) >>]_vars

\* C18: mounting the page for a key whose diffs are in the store after a successful
\* load dispatches no begin event and no fetch, and the key's cached diffs stay.
C18_RemountKeepsCache ==
  [][(/\ effects'.handler = "componentDidMount"
      /\ ~BaseIsNewer(params')
      /\ IsMapping(mapStateToProps(versions, params').compareInfoMap)
      /\ DOMAIN mapStateToProps(versions, params').compareInfoMap # {})
       => /\ CallsIn(effects'.log) = <<>>
          /\ DispatchesIn(effects'.log) = <<>>
          /\ mapStateToProps(versions', params').compareInfoMap
               = mapStateToProps(versions, params').compareInfoMap]_vars

\* what render() shows in the diff pane
DiffPane(props) == render(props) \cap {"ERROR", "DiffView", "Loading diff"}

\* C19: once the head version's metadata (with its entries) is in the store, the diff
\* pane shows exactly one thing: the error indicator when the key's mapping is null,
\* the diff view when the mapping has an entry for the version's selectedPath, the
\* loading indicator otherwise.
C19_DiffPaneShowsOneThing ==
  (/\ mounted
   /\ mapStateToProps(versions, params).version # undefined
   /\ "entries" \in DOMAIN mapStateToProps(versions, params).version) =>
    LET props == mapStateToProps(versions, params)
    IN DiffPane(props) =
         (IF props.compareInfoMap = null THEN {"ERROR"}
          ELSE IF /\ props.compareInfoMap # undefined
                  /\ props.version.selectedPath \in DOMAIN props.compareInfoMap
               THEN {"DiffView"}
               ELSE {"Loading diff"})

\* the metadata stored for versionId has an entry for path
HasEntry(state, versionId, path) ==
  /\ versionId \in DOMAIN state.versionInfo
  /\ "entries" \in DOMAIN state.versionInfo[versionId]
  /\ \E i \in 1..Len(state.versionInfo[versionId].entries) :
       state.versionInfo[versionId].entries[i].path = path

\* a file content is stored at (versionId, path)
HasFile(state, versionId, path) ==
  /\ versionId \in DOMAIN state.versionFiles
  /\ path \in DOMAIN state.versionFiles[versionId]

\* C21: getVersionFile(versionId, path) is undefined when the version's metadata is
\* missing, or has no entry for the path, or no file content is stored at
\* (versionId, path); otherwise it is the stored content with the filename, mimeType,
\* sha256 and type of that entry.
C21_GetVersionFile ==
  \A versionId \in VersionIds, path \in SelectablePaths :
    LET result == getVersionFile(versions, versionId, path)
    IN IF HasEntry(versions, versionId, path) /\ HasFile(versions, versionId, path)
       THEN LET entry == findEntry(versions.versionInfo[versionId].entries, path)
            IN /\ result \notin {undefined, TypeError}
               /\ result.content = versions.versionFiles[versionId][path].content
               /\ result.filename = entry.filename
               /\ result.mimeType = entry.mimeType
               /\ result.sha256 = entry.sha256
               /\ result.type = entry.type
       ELSE result = undefined

\* C23: for every version whose metadata (with its entries) is in the store,
\* selectedPath is the path of one of the version's entries.
C23_SelectedPathIsAnEntry ==
  \A versionId \in DOMAIN versions.versionInfo :
    "entries" \in DOMAIN versions.versionInfo[versionId] =>
      HasEntry(versions, versionId, versions.versionInfo[versionId].selectedPath)

\* C25: whenever the mapping of the current key is null, the page shows the error
\* indicator, also when no metadata of the head version was ever loaded.
C25_FailureIsShown ==
  (mounted /\ mapStateToProps(versions, params).compareInfoMap = null) =>
    "ERROR" \in render(mapStateToProps(versions, params))

\* C26: every record of versionInfo is a complete version metadata (id, addon,
\* version and entries); no record holds selectedPath alone.
C26_VersionInfoIsComplete ==
  \A versionId \in DOMAIN versions.versionInfo :
    {"id", "addon", "version", "entries"} \subseteq DOMAIN versions.versionInfo[versionId]

\* C22: a key's mapping is null only if the most recent fetch for the key failed: when
\* the fetch issued last for a key has completed successfully, the mapping is not null.
C22_NullMeansLastFetchFailed ==
  \A key \in DOMAIN history.last :
    history.last[key].outcome = "loaded" => Get(versions.diffsByPath, key) # null

\* C24: the successful response of a fetch that arrives after the begin event of a
\* later fetch for the same key is not discarded: its diff is merged into the key's
\* mapping, under the file the response selects.
C24_StaleResponseIsMerged ==
  [][(/\ effects'.handler = "fetchDiff"
      /\ ~isErrorResponse(effects'.response)
      /\ history.last[FetchKey(effects'.args)].id # effects'.id)
       => LET args == effects'.args
              after == Get(versions'.diffsByPath, FetchKey(args))
              selected == effects'.response.file.selected_file
          IN /\ IsMapping(after)
             /\ selected \in DOMAIN after
             /\ after[selected].diffs = createInternalDiffs(args.baseVersionId,
                                                            args.headVersionId,
                                                            effects'.response)]_vars

\* the comparisons the page can show: integer addon, base and head version ids
ComparisonKeys ==
  {[addonId |-> parseInt(p.addonId), baseVersionId |-> parseInt(p.baseVersionId),
    headVersionId |-> parseInt(p.headVersionId)] : p \in AllRouteParams}

\* C28: each diff stored at (key, path) was built from a response whose selected file
\* is that path and whose version is the key's head version.
C28_DiffsAreFiledWhereTheyBelong ==
  \A c \in ComparisonKeys :
    LET map == Get(versions.diffsByPath, KeyOf(c))
    IN IsMapping(map) =>
         \A path \in DOMAIN map :
           map[path].diffs =
             createInternalDiffs(c.baseVersionId, c.headVersionId,
                                 ExternalVersionWithDiff(c.addonId, c.headVersionId, path))

\* C29: once no fetch for a key is in flight, the key's mapping is null or holds at
\* least one path: every fetch that began has ended in a loaded or an aborted event,
\* and the key does not stay at the empty mapping.
C29_NoKeyStaysEmpty ==
  \A key \in DOMAIN versions.diffsByPath :
    (\A i \in 1..Len(inflight) : FetchKey(inflight[i].args) # key) =>
      \/ versions.diffsByPath[key] = null
      \/ DOMAIN versions.diffsByPath[key] # {}

\* C27: once every fetch issued by the user's file selections has completed
\* successfully, the selectedPath of the head version is the path selected last,
\* whatever the order of the responses.
C27_LastSelectionWins ==
  (/\ mounted
   /\ history.selection.path # <<>>
   /\ history.selection.fetches = {}
   /\ ~history.selection.failed) =>
    mapStateToProps(versions, params).version.selectedPath = history.selection.path[1]

====
